---- MODULE Spec2Model ----
(***************************************************************************)
(* Model of the kit reconciliation of aiorgdev/cli: applyFileCategories    *)
(* (lib/apply.ts) with the JSON deep merge it delegates to (lodash merge,  *)
(* fs-extra readJson / writeJson), and of the upgrade command that calls   *)
(* it (commands/upgrade.ts) with its git backup and kit detection.         *)
(***************************************************************************)
EXTENDS Integers, Sequences, FiniteSets, TLC

VARIABLES
    manifest,        \* versionJson.fileCategories: the four pattern lists
    src,             \* sourceDir: relative path -> file content
    dest,            \* destDir: relative path -> file content
    result,          \* the ApplyResult being built
    processedFiles,  \* the set of claimed paths
    pos,             \* category and pattern the three loops have reached
    stage,           \* "expand" (about to glob), "files" (in the inner loop), "done"
    files,           \* files of the current expansion not yet visited
    faults,          \* I/O failures the environment may still inject
    run,             \* 1: first call, 2: the call repeated with the same arguments
    before,          \* history: dest when the current call started
    first,           \* history: dest and result when the first call returned
    dispatched,      \* history: per file, the category actions run on it in this call
    claimedIn,       \* history: per file, the category loop that claimed it
    mIncoming,       \* merge study: the incoming (source) document
    mExisting,       \* merge study: the existing (destination) document
    mMerged,         \* merge study: the document written back
    mAgain,          \* merge study: the document written back by a repeated merge
    mStage,          \* merge study: "start", "merged", "again"
    world,           \* upgrade: what lies outside the process (installed
                     \* version.json, environment, config file, git
                     \* repository, temporary directory, extracted archive)
    step,            \* upgrade: the statement upgrade() has reached, or how it ended
    options,         \* upgrade: UpgradeOptions
    kit,             \* upgrade: detectKitInCwd()
    latest,          \* upgrade: fetchLatestVersion(kit.name)
    licenseKey,      \* upgrade: the key passed to getDownloadUrl ("": null)
    tempDir,         \* upgrade: the local tempDir ("": null)
    newKit,          \* upgrade: detectKit(extractPath)
    calls,           \* history: the calls upgrade() has made, in order
    match,           \* matcher study: a pattern, a source tree, and what
                     \* matchesPattern and glob make of them
    project          \* project study: a kit folder and a project's
                     \* context.json, with the last call's result

vars == <<manifest, src, dest, result, processedFiles, pos, stage, files, faults,
          run, before, first, dispatched, claimedIn,
          mIncoming, mExisting, mMerged, mAgain, mStage,
          world, step, options, kit, latest, licenseKey, tempDir, newKit, calls,
          match, project>>

fsVars == <<manifest, src, dest, result, processedFiles, pos, stage, files, faults,
            run, before, first, dispatched, claimedIn>>

mergeVars == <<mIncoming, mExisting, mMerged, mAgain, mStage>>

upgradeVars == <<world, step, options, kit, latest, licenseKey, tempDir, newKit, calls>>

studyVars == <<match, project>>

(***************************************************************************)
(* JSON values.  A scalar (number, string, boolean, null) is [t, s]; an    *)
(* object is [t, o] with o a function from its keys; an array is [t, a, p] *)
(* with a the elements and p the non-index properties a JavaScript array   *)
(* object can carry in memory (JSON text has none).  Object keys of the    *)
(* model are names that are neither array indices nor "length".            *)
(***************************************************************************)
Undefined == [t |-> "undefined"]

Sc(x) == [t |-> "s", s |-> x]

Obj(f) == [t |-> "o", o |-> f]

Arr(elems) == [t |-> "a", a |-> elems, p |-> <<>>]

EmptyObj == Obj(<<>>)

isObject(v) == v.t \in {"o", "a"}

isArray(v) == v.t = "a"

isPlainObject(v) == v.t = "o"

Max(x, y) == IF x >= y THEN x ELSE y

\* The named (non-index) properties of a merge target.
ownProps(object) == IF object.t = "o" THEN object.o ELSE object.p

withProps(object, f) ==
    IF object.t = "o" THEN [object EXCEPT !.o = f] ELSE [object EXCEPT !.p = f]

RECURSIVE baseMerge(_, _)
RECURSIVE baseMergeDeep(_, _)

\* A variant of baseMergeDeep in which an array source is appended to an
\* array target (a concatenating customizer).
RECURSIVE baseMergeDeepConcat(_, _)
baseMergeDeepConcat(objValue, srcValue) ==
    IF isArray(srcValue)
    THEN IF isArray(objValue)
         THEN [objValue EXCEPT !.a = objValue.a \o srcValue.a]
         ELSE baseMerge(Arr(<<>>), srcValue)
    ELSE baseMerge(IF isObject(objValue) THEN objValue ELSE EmptyObj, srcValue)

\* lodash baseMergeDeep, returning the value assigned to object[key]:
\* srcValue is an array or a plain object.  An array source starts from the
\* target's array (or a fresh []), an object source from the target's value
\* when that is any object, arrays included (or a fresh {}); the source is
\* then merged into it recursively.
baseMergeDeep(objValue, srcValue) ==
    IF isArray(srcValue)
    THEN baseMerge(IF isArray(objValue) THEN objValue ELSE Arr(<<>>), srcValue)
    ELSE baseMerge(IF isObject(objValue) THEN objValue ELSE EmptyObj, srcValue)

\* lodash baseMerge(object, source): every key of the source (every index of
\* an array source) is assigned into the target, recursively when the source
\* value is an object or an array.  Keys are independent of each other, so
\* the loop is written as one function constructor.
baseMerge(object, source) ==
    IF isArray(source)
    THEN [object EXCEPT !.a =
            [i \in 1..Max(Len(object.a), Len(source.a)) |->
                IF i <= Len(source.a)
                THEN IF isObject(source.a[i])
                     THEN baseMergeDeep(IF i <= Len(object.a) THEN object.a[i]
                                        ELSE Undefined, source.a[i])
                     ELSE source.a[i]
                ELSE object.a[i]]]
    ELSE withProps(object,
            [k \in (DOMAIN ownProps(object)) \cup (DOMAIN source.o) |->
                IF k \in DOMAIN source.o
                THEN IF isObject(source.o[k])
                     THEN baseMergeDeep(IF k \in DOMAIN ownProps(object)
                                        THEN ownProps(object)[k]
                                        ELSE Undefined, source.o[k])
                     ELSE source.o[k]
                ELSE ownProps(object)[k]])

\* lodash merge(object, source1, source2): sources applied left to right.
merge(object, source1, source2) == baseMerge(baseMerge(object, source1), source2)

\* JSON.stringify followed by JSON.parse: what a document written by
\* fs.writeJson reads back as.  Non-index properties of arrays are not
\* serialised.
RECURSIVE stringify(_)
stringify(v) ==
    CASE v.t = "a" -> Arr([i \in 1..Len(v.a) |-> stringify(v.a[i])])
      [] v.t = "o" -> Obj([k \in DOMAIN v.o |-> stringify(v.o[k])])
      [] OTHER -> v

\* The document applyFileCategories writes back for a mergeIfChanged .json
\* file: merge({}, incoming, existing) serialised by writeJson.
mergedDocument(incoming, existing) == stringify(merge(EmptyObj, incoming, existing))

(***************************************************************************)
(* Paths, patterns and matching.  A relative path is a sequence of         *)
(* segments, a segment a name split at its extension; a pattern is a       *)
(* sequence of pattern segments: a literal name, * (stem or extension      *)
(* "*"), or the globstar **.                                               *)
(***************************************************************************)
Seg(stem, ext) == [stem |-> stem, ext |-> ext]

StarExt(ext) == Seg("*", ext)

GlobStar == Seg("**", "")

ConfigJson == <<Seg("config", "json")>>

NotesTxt == <<Seg("notes", "txt")>>

SettingsJson == <<Seg(".claude", ""), Seg("settings", "json")>>

UserMd == <<Seg("user", "md")>>

\* The files a source tree of the model holds, and every path of the model.
SourceFiles == {ConfigJson, NotesTxt, SettingsJson}

AllFiles == SourceFiles \cup {UserMd}

PatAll == <<GlobStar>>

PatTopJson == <<StarExt("json")>>

PatConfig == ConfigJson

PatNotes == NotesTxt

PatClaude == <<Seg(".claude", ""), GlobStar>>

PatMissing == <<Seg("missing", "md")>>

\* One path segment against one pattern segment (dot: true: a leading dot
\* is matched like any other character).
matchSegment(s, ps) ==
    /\ ps.stem = "*" \/ ps.stem = s.stem
    /\ ps.ext = "*" \/ ps.ext = s.ext

\* minimatch's matchOne: segment by segment; a globstar that ends the
\* pattern swallows the rest of a non-empty path, a globstar elsewhere
\* stands for zero or more segments.
RECURSIVE matchOne(_, _)
matchOne(file, pattern) ==
    IF pattern = <<>> THEN file = <<>>
    ELSE IF file = <<>> THEN FALSE
    ELSE IF Head(pattern) = GlobStar
         THEN \/ Len(pattern) = 1
              \/ \E k \in 0..(Len(file) - 1) :
                    matchOne(SubSeq(file, k + 1, Len(file)), Tail(pattern))
         ELSE /\ matchSegment(Head(file), Head(pattern))
              /\ matchOne(Tail(file), Tail(pattern))

\* A variant of matchesPattern that compares the path with the pattern text.
matchesLiterally(filePath, pattern) == filePath = pattern

\* A file and a pattern whose text starts with "!" or with "#".
BangNotes == <<Seg("!notes", "txt")>>

HashNotes == <<Seg("#notes", "txt")>>

\* pattern.charAt(0) of a pattern's text.
charAt0(pattern) ==
    IF Len(pattern) = 0 THEN ""
    ELSE IF pattern[1].stem = "!notes" THEN "!"
    ELSE IF pattern[1].stem = "#notes" THEN "#"
    ELSE "plain"

\* pattern.slice(1) of a pattern's text that starts with "!".
slice1(pattern) ==
    IF Head(pattern).stem = "!notes"
    THEN <<Seg("notes", Head(pattern).ext)>> \o Tail(pattern)
    ELSE pattern

\* matchesPattern(filePath, pattern): minimatch(filePath, pattern, {dot: true}).
\* With minimatch's default options a pattern that starts with "#" is a
\* comment and matches nothing, and one that starts with "!" is negated.
matchesPattern(filePath, pattern) ==
    IF charAt0(pattern) = "plain" THEN matchOne(filePath, pattern)
    ELSE IF charAt0(pattern) = "!" THEN ~matchOne(filePath, slice1(pattern))
    ELSE charAt0(pattern) # "#" /\ matchOne(filePath, pattern)

\* A variant of glob that expands every pattern to all files of the tree.
globEverything(pattern, tree) == {f \in DOMAIN tree : tree[f].kind # "absent"}

\* glob(pattern, {cwd: sourceDir, dot: true, nodir: true}): the files of the
\* source tree the pattern matches.  The order of the array is left open:
\* the inner loop takes the files of this set in any order.  glob hands its
\* patterns to minimatch with nonegate and nocomment set: a leading "!" or
\* "#" is an ordinary character of a file name.
glob(pattern, tree) ==
    {f \in DOMAIN tree : tree[f].kind # "absent" /\ matchOne(f, pattern)}

\* file.endsWith('.json')
endsWithJson(file) == file[Len(file)].ext = "json"

(***************************************************************************)
(* File contents.  A well-formed JSON file is its parsed document and its  *)
(* formatting ("shipped": as the author wrote it, "spaces2": as writeJson  *)
(* prints it); key order is not modelled.  "bad" is text that does not     *)
(* parse as JSON, Truncated what an interrupted write can leave behind.    *)
(***************************************************************************)
Absent == [kind |-> "absent", doc |-> Undefined, fmt |-> "none"]

JsonFile(doc, fmt) == [kind |-> "json", doc |-> doc, fmt |-> fmt]

TextFile(id) == [kind |-> "text", doc |-> Sc(id), fmt |-> "raw"]

BadJson(id) == [kind |-> "bad", doc |-> Sc(id), fmt |-> "raw"]

Truncated == BadJson("truncated")

\* fs.pathExists(path)
pathExists(tree, file) == tree[file].kind # "absent"

\* fs.readJson(path) succeeds exactly on well-formed JSON text.
canReadJson(content) == content.kind = "json"

readJson(content) == content.doc

\* fs.writeJson(path, obj, {spaces: 2}): the file holds the serialised
\* document, pretty-printed.
writeJson(obj) == JsonFile(stringify(obj), "spaces2")

(***************************************************************************)
(* The trees and manifests the calls are started from.                     *)
(***************************************************************************)
O1(k1, v1) == Obj([k \in {k1} |-> v1])

O2(k1, v1, k2, v2) == Obj([k \in {k1, k2} |-> IF k = k1 THEN v1 ELSE v2])

O3(k1, v1, k2, v2, k3, v3) ==
    Obj([k \in {k1, k2, k3} |-> IF k = k1 THEN v1 ELSE IF k = k2 THEN v2 ELSE v3])

\* config.json as shipped: {"version":"1.0","theme":"dark"}
ShippedConfig == O2("version", Sc("1.0"), "theme", Sc("dark"))

\* config.json as the user left it: {"version":"1.0","theme":"light","custom":true}
UserConfig == O3("version", Sc("1.0"), "theme", Sc("light"), "custom", Sc("true"))

\* A shipped and a user config.json that both hold a list under "tags".
ShippedTags == O2("theme", Sc("dark"), "tags", Arr(<<Sc("a"), Sc("b")>>))

UserTags == O2("theme", Sc("light"), "tags", Arr(<<Sc("x")>>))

ShippedSettings == O1("hooks", O1("pre", Sc("lint")))

UserSettings == O1("hooks", O1("post", Sc("notify")))

\* (shipped config.json, installed config.json) pairs.
ConfigCases ==
    { <<JsonFile(ShippedConfig, "shipped"), Absent>>,
      <<JsonFile(ShippedConfig, "shipped"), JsonFile(UserConfig, "shipped")>>,
      <<JsonFile(ShippedConfig, "shipped"), BadJson("user")>>,
      <<JsonFile(ShippedTags, "shipped"), JsonFile(UserTags, "shipped")>>,
      <<BadJson("shipped"), JsonFile(UserConfig, "shipped")>> }

SourceTree(config) ==
    [f \in AllFiles |->
        CASE f = ConfigJson -> config
          [] f = NotesTxt -> TextFile("shipped notes")
          [] f = SettingsJson -> JsonFile(ShippedSettings, "shipped")
          [] OTHER -> Absent]

DestTree(config, notes, settings) ==
    [f \in AllFiles |->
        CASE f = ConfigJson -> config
          [] f = NotesTxt -> notes
          [] f = SettingsJson -> settings
          [] OTHER -> TextFile("user file")]

\* The mergeIfChanged and addOnly lists of the manifests.
CategoryLists == {<<>>, <<PatAll>>, <<PatConfig, PatTopJson>>, <<PatMissing, PatNotes>>}

\* The alwaysReplace lists of the manifests.
ReplaceLists == {<<>>, <<PatAll>>, <<PatConfig, PatTopJson>>, <<PatClaude, PatMissing>>}

NeverTouchLists == {<<>>, <<PatClaude>>, <<PatNotes, PatTopJson>>}

Manifests ==
    [alwaysReplace : ReplaceLists, neverTouch : NeverTouchLists,
     mergeIfChanged : CategoryLists, addOnly : CategoryLists]

\* The fixed processing order of the three loops.
Order == <<"alwaysReplace", "mergeIfChanged", "addOnly">>

\* I/O failures (a rejected glob, a failed copy or write) the environment
\* may inject during the two calls.
MaxFaults == 1

EmptyResult ==
    [replaced |-> <<>>, merged |-> <<>>, added |-> <<>>, skipped |-> <<>>,
     errors |-> <<>>]

Done == [cat |-> 4, pi |-> 0]

\* The pattern after pattern pi of category cat (pi = 0: the first one):
\* the next entry of the list, else the first entry of the next non-empty
\* list, else the end of the last loop.
RECURSIVE nextPos(_, _, _)
nextPos(m, cat, pi) ==
    IF cat > 3 THEN Done
    ELSE IF pi < Len(m[Order[cat]]) THEN [cat |-> cat, pi |-> pi + 1]
    ELSE nextPos(m, cat + 1, 0)

InSet(seq) == {seq[i] : i \in 1..Len(seq)}

(***************************************************************************)
(* applyFileCategories(sourceDir, destDir, versionJson).                   *)
(***************************************************************************)
\* The result as the sets of its five lists.
Outcome(r) ==
    [replaced |-> InSet(r.replaced), merged |-> InSet(r.merged),
     added |-> InSet(r.added), skipped |-> InSet(r.skipped),
     errors |-> InSet(r.errors)]

NoDispatch == [f \in SourceFiles |-> <<>>]

NoClaim == [f \in SourceFiles |-> "none"]

\* fileCategories absent from version.json: each list reads as [].
NoCategories ==
    [alwaysReplace |-> <<>>, neverTouch |-> <<>>, mergeIfChanged |-> <<>>, addOnly |-> <<>>]

\* A .claude/version.json that passes VersionJsonSchema.
VersionFile(version, fileCategories) ==
    [kind |-> "ok", version |-> version, fileCategories |-> fileCategories]

\* A .claude/version.json that is missing, or does not parse or validate.
Unreadable(kind) == [kind |-> kind, version |-> <<0, 0, 0>>, fileCategories |-> NoCategories]

\* detectKit's null.
NoKit == [found |-> FALSE, version |-> <<0, 0, 0>>, versionJson |-> Unreadable("missing")]

NoLatest == [version |-> <<0, 0, 0>>, tier |-> "none"]

\* The files and patterns of the study of matchesPattern against glob.
MatchFiles == AllFiles \cup {BangNotes, HashNotes}

MatchPatterns ==
    {PatAll, PatTopJson, PatConfig, PatNotes, PatClaude, PatMissing, BangNotes,
     HashNotes}

NoMatch ==
    [stage |-> "off", pattern |-> <<>>, tree |-> [f \in MatchFiles |-> Absent],
     expanded |-> {}, filePath |-> <<>>, member |-> FALSE]

\* context.json of a project and the .aiorg link file of a folder.
ContextJson(installedKits, lastUpdated, updatedBy) ==
    [kind |-> "json", installedKits |-> installedKits, lastUpdated |-> lastUpdated,
     updatedBy |-> updatedBy]

NoContext == [kind |-> "absent", installedKits |-> <<>>, lastUpdated |-> 0, updatedBy |-> ""]

\* The .aiorg file: absent, not JSON, or a JSON object whose project is a
\* string, a number or missing and whose version is a string or missing.
AiorgFile(kind, projectType, projectName, version) ==
    [kind |-> kind, projectType |-> projectType, project |-> projectName,
     version |-> version]

NoProject ==
    [stage |-> "off", context |-> NoContext, aiorg |-> AiorgFile("absent", "undefined", "", ""),
     claudeDir |-> FALSE, versionJson |-> FALSE, added |-> {},
     last |-> [fn |-> "", arg |-> "", ret |-> ""], prev |-> NoContext, clock |-> 0]

\* Neither study is part of the run.
StudyOff == match = NoMatch /\ project = NoProject

\* applyFileCategories and the merge study are not part of the run.
ApplyOff ==
    /\ manifest = [alwaysReplace |-> <<>>, neverTouch |-> <<>>,
                   mergeIfChanged |-> <<>>, addOnly |-> <<>>]
    /\ src = [f \in AllFiles |-> Absent]
    /\ dest = [f \in AllFiles |-> Absent]
    /\ result = EmptyResult
    /\ processedFiles = {}
    /\ pos = Done
    /\ stage = "off"
    /\ files = {}
    /\ faults = 0
    /\ run = 1
    /\ before = dest
    /\ first = [dest |-> dest, result |-> Outcome(EmptyResult), dispatched |-> NoDispatch]
    /\ dispatched = NoDispatch
    /\ claimedIn = NoClaim
    /\ mIncoming = EmptyObj
    /\ mExisting = EmptyObj
    /\ mMerged = EmptyObj
    /\ mAgain = EmptyObj
    /\ mStage = "off"

\* The upgrade command is not part of the run.
UpgradeOff ==
    /\ world = [installed |-> Unreadable("missing"), envKey |-> "", configKey |-> "",
                repo |-> FALSE, dirty |-> FALSE, commits |-> 0,
                tempDirs |-> "none", extracted |-> Unreadable("missing"),
                target |-> "missing"]
    /\ step = "off"
    /\ options = [yes |-> FALSE, backup |-> FALSE, force |-> FALSE]
    /\ kit = NoKit
    /\ latest = NoLatest
    /\ licenseKey = ""
    /\ tempDir = ""
    /\ newKit = NoKit
    /\ calls = <<>>

Init ==
    /\ manifest \in Manifests
    /\ \E c \in ConfigCases :
       \E notes \in {Absent, TextFile("user notes")} :
          /\ src = SourceTree(c[1])
          /\ dest = DestTree(c[2], notes, JsonFile(UserSettings, "shipped"))
    /\ result = EmptyResult
    /\ processedFiles = {}
    /\ pos = nextPos(manifest, 1, 0)
    /\ stage = IF pos = Done THEN "done" ELSE "expand"
    /\ files = {}
    /\ faults = MaxFaults
    /\ run = 1
    /\ before = dest
    /\ first = [dest |-> dest, result |-> Outcome(EmptyResult), dispatched |-> NoDispatch]
    /\ dispatched = NoDispatch
    /\ claimedIn = NoClaim
    /\ mIncoming = EmptyObj
    /\ mExisting = EmptyObj
    /\ mMerged = EmptyObj
    /\ mAgain = EmptyObj
    /\ mStage = "off"
    /\ UpgradeOff
    /\ StudyOff

\* The pattern the current loop is at.
pattern == manifest[Order[pos.cat]][pos.pi]

\* neverTouch.some((ntPattern) => matchesPattern(file, ntPattern))
shouldSkip(file) ==
    \E i \in 1..Len(manifest.neverTouch) : matchesPattern(file, manifest.neverTouch[i])

Error(msg, subject) == [msg |-> msg, subject |-> subject]

push(field, x) == [result EXCEPT ![field] = Append(@, x)]

\* The end of one iteration of an inner loop: with files left the loop goes
\* on, otherwise the next pattern (of this or the next non-empty category)
\* is expanded, or the function returns.
Advance(rest) ==
    /\ files' = rest
    /\ IF rest = {}
       THEN /\ pos' = nextPos(manifest, pos.cat, pos.pi)
            /\ stage' = IF pos' = Done THEN "done" ELSE "expand"
       ELSE /\ pos' = pos
            /\ stage' = "files"

\* A variant of Claim that does not add the path to processedFiles.
ClaimNothing(file) ==
    /\ processedFiles' = processedFiles
    /\ claimedIn' = [claimedIn EXCEPT ![file] = IF @ = "none" THEN Order[pos.cat] ELSE @]

\* A variant of Claim that claims, with the file, every file still waiting
\* in the current expansion.
ClaimExpansion(file) ==
    /\ processedFiles' = processedFiles \cup files
    /\ claimedIn' = [claimedIn EXCEPT ![file] = Order[pos.cat]]

\* A claimed path: processedFiles.add(file), with the loop that did it.
Claim(file) ==
    /\ processedFiles' = processedFiles \cup {file}
    /\ claimedIn' = [claimedIn EXCEPT ![file] = Order[pos.cat]]

Dispatch(file) == dispatched' = [dispatched EXCEPT ![file] = Append(@, Order[pos.cat])]

\* await glob(pattern, ...) resolves.
Expand ==
    /\ stage = "expand"
    /\ Advance(glob(pattern, src))
    /\ UNCHANGED <<manifest, src, dest, result, processedFiles, faults, run, before,
                   first, dispatched, claimedIn, mergeVars, upgradeVars, studyVars>>

ExpandMessage ==
    CASE pos.cat = 1 -> "Failed to process pattern"
      [] pos.cat = 2 -> "Failed to process merge pattern"
      [] OTHER -> "Failed to process addOnly pattern"

\* A variant of ExpandFails without the outer try/catch: the rejection of
\* glob leaves the function as an exception.
ExpandRaises ==
    /\ stage = "expand"
    /\ faults > 0
    /\ faults' = faults - 1
    /\ stage' = "raised"
    /\ UNCHANGED <<manifest, src, dest, result, processedFiles, pos, files, run,
                   before, first, dispatched, claimedIn, mergeVars, upgradeVars, studyVars>>

\* A variant of ExpandFails that ends the call after recording the pattern.
ExpandFailsAndStops ==
    /\ stage = "expand"
    /\ faults > 0
    /\ faults' = faults - 1
    /\ result' = push("errors", Error(ExpandMessage, pattern))
    /\ files' = {}
    /\ pos' = Done
    /\ stage' = "done"
    /\ UNCHANGED <<manifest, src, dest, processedFiles, run, before, first,
                   dispatched, claimedIn, mergeVars, upgradeVars, studyVars>>

\* await glob(pattern, ...) rejects: the outer catch records the pattern.
ExpandFails ==
    /\ stage = "expand"
    /\ faults > 0
    /\ faults' = faults - 1
    /\ result' = push("errors", Error(ExpandMessage, pattern))
    /\ Advance({})
    /\ UNCHANGED <<manifest, src, dest, processedFiles, run, before, first,
                   dispatched, claimedIn, mergeVars, upgradeVars, studyVars>>

\* The head of every inner loop: a claimed file is passed over, a file
\* matching a neverTouch pattern is recorded as skipped and claimed.
PassOver(file) ==
    /\ file \in processedFiles
    /\ UNCHANGED <<dest, result, processedFiles, faults, dispatched, claimedIn>>

NeverTouch(file) ==
    /\ file \notin processedFiles
    /\ shouldSkip(file)
    /\ result' = push("skipped", file)
    /\ Claim(file)
    /\ UNCHANGED <<dest, faults, dispatched>>

\* What a copy or write that throws can leave at the destination path.
AfterFailedWrite(file) == {dest[file], Truncated}

\* fs.ensureDir + fs.copy (or fs.writeJson) throws: the inner catch records
\* the file, which is not claimed.
Fails(file, msg) ==
    /\ faults > 0
    /\ faults' = faults - 1
    /\ \E left \in AfterFailedWrite(file) : dest' = [dest EXCEPT ![file] = left]
    /\ result' = push("errors", Error(msg, file))
    /\ Dispatch(file)
    /\ UNCHANGED <<processedFiles, claimedIn>>

\* A variant of Copies that keeps a destination file that exists
\* (fs.copy with overwrite: false).
CopiesUnlessPresent(file, list) ==
    /\ dest' = [dest EXCEPT ![file] = IF pathExists(dest, file) THEN @ ELSE src[file]]
    /\ result' = push(list, file)
    /\ Claim(file)
    /\ Dispatch(file)
    /\ UNCHANGED faults

\* A variant of Copies that records every copied path under added.
CopiesAsAdded(file, list) ==
    /\ dest' = [dest EXCEPT ![file] = src[file]]
    /\ result' = push("added", file)
    /\ Claim(file)
    /\ Dispatch(file)
    /\ UNCHANGED faults

\* fs.ensureDir + fs.copy succeed: the destination holds the source's bytes.
Copies(file, list) ==
    /\ dest' = [dest EXCEPT ![file] = src[file]]
    /\ result' = push(list, file)
    /\ Claim(file)
    /\ Dispatch(file)
    /\ UNCHANGED faults

\* A variant of Skips that overwrites the file it reports as skipped.
SkipsButCopies(file) ==
    /\ dest' = [dest EXCEPT ![file] = src[file]]
    /\ result' = push("skipped", file)
    /\ Claim(file)
    /\ Dispatch(file)
    /\ UNCHANGED faults

\* The file exists and is left alone.
Skips(file) ==
    /\ result' = push("skipped", file)
    /\ Claim(file)
    /\ Dispatch(file)
    /\ UNCHANGED <<dest, faults>>

\* 1. one iteration of the alwaysReplace loop
AlwaysReplace ==
    /\ stage = "files"
    /\ pos.cat = 1
    /\ \E file \in files :
        /\ \/ PassOver(file)
           \/ NeverTouch(file)
           \/ /\ file \notin processedFiles
              /\ ~shouldSkip(file)
              /\ \/ Copies(file, "replaced")
                 \/ Fails(file, "Failed to copy")
        /\ Advance(files \ {file})
    /\ UNCHANGED <<manifest, src, run, before, first, mergeVars, upgradeVars, studyVars>>

\* A variant of MergesJson that reads a destination document that does not
\* parse as {} and writes the merge over it.
MergesJsonLenient(file) ==
    IF canReadJson(src[file])
    THEN /\ dest' = [dest EXCEPT ![file] =
                       writeJson(merge(EmptyObj, readJson(src[file]),
                                       IF canReadJson(dest[file])
                                       THEN readJson(dest[file]) ELSE EmptyObj))]
         /\ result' = push("merged", file)
         /\ Claim(file)
         /\ Dispatch(file)
         /\ UNCHANGED faults
    ELSE /\ result' = push("errors", Error("Failed to merge", file))
         /\ Dispatch(file)
         /\ UNCHANGED <<dest, faults, processedFiles, claimedIn>>

\* The JSON branch of the merge loop: both documents are read, merged and
\* written back; a document that does not parse throws before the write.
MergesJson(file) ==
    IF canReadJson(src[file]) /\ canReadJson(dest[file])
    THEN \/ /\ dest' = [dest EXCEPT ![file] =
                          writeJson(merge(EmptyObj, readJson(src[file]),
                                          readJson(dest[file])))]
            /\ result' = push("merged", file)
            /\ Claim(file)
            /\ Dispatch(file)
            /\ UNCHANGED faults
         \/ Fails(file, "Failed to merge")
    ELSE /\ result' = push("errors", Error("Failed to merge", file))
         /\ Dispatch(file)
         /\ UNCHANGED <<dest, faults, processedFiles, claimedIn>>

\* 2. one iteration of the mergeIfChanged loop
MergeIfChanged ==
    /\ stage = "files"
    /\ pos.cat = 2
    /\ \E file \in files :
        /\ \/ PassOver(file)
           \/ NeverTouch(file)
           \/ /\ file \notin processedFiles
              /\ ~shouldSkip(file)
              /\ IF pathExists(dest, file) /\ endsWithJson(file)
                 THEN MergesJson(file)
                 ELSE IF pathExists(dest, file)
                 THEN Skips(file)
                 ELSE \/ Copies(file, "replaced")
                      \/ Fails(file, "Failed to merge")
        /\ Advance(files \ {file})
    /\ UNCHANGED <<manifest, src, run, before, first, mergeVars, upgradeVars, studyVars>>

\* 3. one iteration of the addOnly loop
AddOnly ==
    /\ stage = "files"
    /\ pos.cat = 3
    /\ \E file \in files :
        /\ \/ PassOver(file)
           \/ NeverTouch(file)
           \/ /\ file \notin processedFiles
              /\ ~shouldSkip(file)
              /\ IF ~pathExists(dest, file)
                 THEN \/ Copies(file, "added")
                      \/ Fails(file, "Failed to add")
                 ELSE Skips(file)
        /\ Advance(files \ {file})
    /\ UNCHANGED <<manifest, src, run, before, first, mergeVars, upgradeVars, studyVars>>

\* The call has returned its result; the caller repeats it with the same
\* sourceDir, destDir and versionJson.
CallAgain ==
    /\ stage = "done"
    /\ run = 1
    /\ run' = 2
    /\ first' = [dest |-> dest, result |-> Outcome(result), dispatched |-> dispatched]
    /\ before' = dest
    /\ result' = EmptyResult
    /\ processedFiles' = {}
    /\ pos' = nextPos(manifest, 1, 0)
    /\ stage' = IF pos' = Done THEN "done" ELSE "expand"
    /\ files' = {}
    /\ dispatched' = NoDispatch
    /\ claimedIn' = NoClaim
    /\ UNCHANGED <<manifest, src, dest, faults, mergeVars, upgradeVars, studyVars>>

Next == Expand \/ ExpandFails \/ AlwaysReplace \/ MergeIfChanged \/ AddOnly \/ CallAgain

Spec == Init /\ [][Next]_vars

(***************************************************************************)
(* The merge on its own: the documents of two bounded JSON files are       *)
(* merged as the mergeIfChanged branch does, then merged once more.        *)
(***************************************************************************)
\* The longest array of the bounded documents.
MaxArrLen == 2

Scalars == {Sc("1"), Sc("2")}

\* Every object with keys among ks and values in vals.
ObjectsOver(ks, vals) ==
    UNION {{Obj(f) : f \in [d -> vals]} : d \in SUBSET ks}

\* Every array of at most MaxArrLen elements of vals.
ArraysOver(vals) ==
    UNION {{Arr(e) : e \in [1..n -> vals]} : n \in 0..MaxArrLen}

InnerObjects == ObjectsOver({"c", "d"}, Scalars)

Elements == Scalars \cup {O1("c", Sc("1")), O1("d", Sc("2"))}

Values == Scalars \cup InnerObjects \cup ArraysOver(Elements)

\* The bounded documents: {a?: any value, b?: a scalar or a nested object}.
Documents ==
    {Obj(f) : f \in UNION {[d -> Values] : d \in SUBSET {"a"}}}
    \cup {O2("a", v, "b", w) : v \in Values, w \in {Sc("1"), O1("c", O1("d", Sc("2")))}}

MergeInit ==
    /\ mIncoming \in Documents
    /\ mExisting \in Documents
    /\ mMerged = EmptyObj
    /\ mAgain = EmptyObj
    /\ mStage = "start"
    /\ manifest = [alwaysReplace |-> <<>>, neverTouch |-> <<>>,
                   mergeIfChanged |-> <<PatConfig>>, addOnly |-> <<>>]
    /\ src = [f \in AllFiles |-> Absent]
    /\ dest = [f \in AllFiles |-> Absent]
    /\ result = EmptyResult
    /\ processedFiles = {}
    /\ pos = Done
    /\ stage = "off"
    /\ files = {}
    /\ faults = 0
    /\ run = 1
    /\ before = dest
    /\ first = [dest |-> dest, result |-> Outcome(EmptyResult), dispatched |-> NoDispatch]
    /\ dispatched = NoDispatch
    /\ claimedIn = NoClaim
    /\ UpgradeOff
    /\ StudyOff

\* const merged = merge({}, incoming, existing); writeJson(destPath, merged)
MergeOnce ==
    /\ mStage = "start"
    /\ mMerged' = mergedDocument(mIncoming, mExisting)
    /\ mStage' = "merged"
    /\ UNCHANGED <<mIncoming, mExisting, mAgain, fsVars, upgradeVars, studyVars>>

\* The written document is merged again under the same existing document.
MergeAgainUnderExisting ==
    /\ mStage = "merged"
    /\ mAgain' = mergedDocument(mMerged, mExisting)
    /\ mStage' = "againExisting"
    /\ UNCHANGED <<mIncoming, mExisting, mMerged, fsVars, upgradeVars, studyVars>>

\* A second call: the same incoming document is merged with the document
\* the first call wrote.
MergeAgainSameIncoming ==
    /\ mStage = "merged"
    /\ mAgain' = mergedDocument(mIncoming, mMerged)
    /\ mStage' = "againIncoming"
    /\ UNCHANGED <<mIncoming, mExisting, mMerged, fsVars, upgradeVars, studyVars>>

MergeNext == MergeOnce \/ MergeAgainUnderExisting \/ MergeAgainSameIncoming

MergeSpec == MergeInit /\ [][MergeNext]_vars

(***************************************************************************)
(* upgrade(options): the command from kit detection to the clean-up of the *)
(* temporary directory.  Prompts, network calls and git commands answer as *)
(* the environment chooses.  A license key "" stands for null.             *)
(***************************************************************************)
V100 == <<1, 0, 0>>

V110 == <<1, 1, 0>>

\* semver.gt(a, b) on release versions.
semverGt(a, b) ==
    \/ a[1] > b[1]
    \/ a[1] = b[1] /\ a[2] > b[2]
    \/ a[1] = b[1] /\ a[2] = b[2] /\ a[3] > b[3]

\* The fileCategories of the installed kit's version.json.
OldCategories ==
    [alwaysReplace |-> <<PatAll>>, neverTouch |-> <<>>, mergeIfChanged |-> <<>>,
     addOnly |-> <<>>]

\* The fileCategories the new version ships.
NewCategories ==
    [alwaysReplace |-> <<PatClaude>>, neverTouch |-> <<PatNotes>>,
     mergeIfChanged |-> <<PatConfig>>, addOnly |-> <<PatAll>>]

\* What the working directory can hold as .claude/version.json.
Installed ==
    {Unreadable("missing"), VersionFile(V100, NoCategories),
     VersionFile(V100, OldCategories), VersionFile(V110, OldCategories)}

\* What the downloaded archive can hold as .claude/version.json.
Archives(version) ==
    {Unreadable("missing"), Unreadable("malformed"),
     VersionFile(version, NoCategories), VersionFile(version, NewCategories)}

\* detectKit(dirPath), given the directory's .claude/version.json.
detectKit(file) ==
    IF file.kind = "ok"
    THEN [found |-> TRUE, version |-> file.version, versionJson |-> file]
    ELSE NoKit

\* isLoggedIn(): the config file holds a license key.
isLoggedIn(w) == w.configKey # ""

\* getLicenseKey(): the environment first, then the config file.
getLicenseKey(w) == IF w.envKey # "" THEN w.envKey ELSE w.configKey

\* isGitRepo(dirPath)
isGitRepo(w) == w.repo

Call(fn, arg, ret) == [fn |-> fn, arg |-> arg, ret |-> ret]

UpgradeInit ==
    /\ world \in [installed : Installed, envKey : {"", "ak_env"},
                  configKey : {"", "ak_saved"}, repo : BOOLEAN, dirty : BOOLEAN,
                  commits : {0}, tempDirs : {"none"},
                  extracted : {Unreadable("missing")}, target : {"missing"}]
    /\ step = "detect"
    /\ options \in [yes : BOOLEAN, backup : BOOLEAN, force : {FALSE}]
    /\ kit = NoKit
    /\ latest = NoLatest
    /\ licenseKey = ""
    /\ tempDir = ""
    /\ newKit = NoKit
    /\ calls = <<>>
    /\ manifest = NoCategories
    /\ src = SourceTree(JsonFile(ShippedConfig, "shipped"))
    /\ dest = DestTree(JsonFile(UserConfig, "shipped"), Absent,
                       JsonFile(UserSettings, "shipped"))
    /\ result = EmptyResult
    /\ processedFiles = {}
    /\ pos = Done
    /\ stage = "off"
    /\ files = {}
    /\ faults = MaxFaults
    /\ run = 1
    /\ before = dest
    /\ first = [dest |-> dest, result |-> Outcome(EmptyResult), dispatched |-> NoDispatch]
    /\ dispatched = NoDispatch
    /\ claimedIn = NoClaim
    /\ mIncoming = EmptyObj
    /\ mExisting = EmptyObj
    /\ mMerged = EmptyObj
    /\ mAgain = EmptyObj
    /\ mStage = "off"
    /\ StudyOff

\* const kit = await detectKitInCwd(); no kit: process.exit(1)
Detect ==
    /\ step = "detect"
    /\ kit' = detectKit(world.installed)
    /\ step' = IF kit'.found THEN "project" ELSE "exit1"
    /\ UNCHANGED <<world, options, latest, licenseKey, tempDir, newKit, calls,
                   fsVars, mergeVars, studyVars>>

\* The project link of the installation (migration or listing the kit):
\* it returns, whatever the user answers, or an unguarded write throws.
ProjectLink ==
    /\ step = "project"
    /\ step' \in {"fetch", "thrown"}
    /\ UNCHANGED <<world, options, kit, latest, licenseKey, tempDir, newKit, calls,
                   fsVars, mergeVars, studyVars>>

Tiers == {"free", "paid", "none"}

\* A variant of FetchLatest that goes on whatever the latest version is.
FetchLatestAnyVersion ==
    /\ step = "fetch"
    /\ \/ /\ calls' = Append(calls, Call("fetchLatestVersion", "", "threw"))
          /\ step' = "thrown"
          /\ UNCHANGED latest
       \/ /\ calls' = Append(calls, Call("fetchLatestVersion", "", "returned"))
          /\ latest' \in [version : {V100, V110}, tier : Tiers]
          /\ step' = "confirm"
    /\ UNCHANGED <<world, options, kit, licenseKey, tempDir, newKit, fsVars, mergeVars, studyVars>>

\* latest = await fetchLatestVersion(kit.name), then the version comparison.
FetchLatest ==
    /\ step = "fetch"
    /\ \/ /\ calls' = Append(calls, Call("fetchLatestVersion", "", "threw"))
          /\ step' = "thrown"
          /\ UNCHANGED latest
       \/ /\ calls' = Append(calls, Call("fetchLatestVersion", "", "returned"))
          /\ latest' \in [version : {V100, V110}, tier : Tiers]
          /\ step' = IF ~semverGt(latest'.version, kit.version) THEN "uptodate"
                     ELSE "confirm"
    /\ UNCHANGED <<world, options, kit, licenseKey, tempDir, newKit, fsVars, mergeVars, studyVars>>

\* Without --yes: 'Proceed with upgrade?'
Confirm ==
    /\ step = "confirm"
    /\ IF options.yes THEN step' = "license"
       ELSE \E shouldUpgrade \in {"true", "false", "cancel"} :
               step' = IF shouldUpgrade = "true" THEN "license" ELSE "cancelled"
    /\ UNCHANGED <<world, options, kit, latest, licenseKey, tempDir, newKit, calls,
                   fsVars, mergeVars, studyVars>>

\* login() as called from upgrade when isLoggedIn() is false: the key typed
\* is verified and saved, or the prompt is cancelled (exit 0), the key is
\* invalid (exit 1) or the verification request throws.
login(outcome) ==
    /\ calls' = Append(calls, Call("login", "", outcome))
    /\ world' = IF outcome = "saved" THEN [world EXCEPT !.configKey = "ak_typed"]
                ELSE world

\* A variant of requireLicense that goes on without a key.
requireLicenseOrNone(onward) ==
    /\ licenseKey' = IF latest.tier = "free" THEN "" ELSE getLicenseKey(world)
    /\ step' = onward
    /\ UNCHANGED <<world, calls>>

\* The license block that upgrade and init share word for word: a free kit
\* keeps licenseKey null; otherwise login when not logged in, then
\* getLicenseKey(); no key: process.exit(1).
requireLicense(onward) ==
    IF latest.tier = "free"
    THEN /\ licenseKey' = ""
         /\ step' = onward
         /\ UNCHANGED <<world, calls>>
    ELSE IF ~isLoggedIn(world)
    THEN \E outcome \in {"saved", "exit0", "exit1", "threw"} :
            /\ login(outcome)
            /\ IF outcome = "saved"
               THEN /\ licenseKey' = getLicenseKey(world')
                    /\ step' = IF licenseKey' = "" THEN "exit1" ELSE onward
               ELSE /\ licenseKey' = ""
                    /\ step' = IF outcome = "threw" THEN "thrown" ELSE outcome
    ELSE /\ licenseKey' = getLicenseKey(world)
         /\ step' = IF licenseKey' = "" THEN "exit1" ELSE onward
         /\ UNCHANGED <<world, calls>>

\* The license of the kit to upgrade.
License ==
    /\ step = "license"
    /\ requireLicense("backup")
    /\ UNCHANGED <<options, kit, latest, tempDir, newKit, fsVars, mergeVars, studyVars>>

\* createGitBackup(dirPath, message): git add -A; git diff --cached --quiet
\* with status 0 returns false; otherwise git commit, and the result is
\* whether its status is 0.  git can be missing or fail (status null or not
\* 0), and anything thrown returns false.
createGitBackup(git) ==
    LET staged == world.dirty /\ git \in {"commits", "commit fails"}
        diffStatusZero == git \in {"commits", "commit fails"} /\ ~staged
        commitStatusZero == ~diffStatusZero /\ git = "commits"
    IN  /\ world' = [world EXCEPT
                       !.commits = IF commitStatusZero THEN @ + 1 ELSE @,
                       !.dirty = IF commitStatusZero THEN FALSE ELSE @]
        /\ calls' = Append(calls, Call("createGitBackup",
                                       IF stage = "off" THEN "before apply"
                                       ELSE "after apply",
                                       IF commitStatusZero THEN "true" ELSE "false"))

\* How the git commands of one backup can go.
GitOutcomes == {"commits", "commit fails", "not found", "throws"}

\* A variant of Backup in which a backup that is asked for and creates no
\* commit ends the upgrade.
BackupOrStop ==
    /\ step = "backup"
    /\ IF isGitRepo(world) /\ options.backup
       THEN \E git \in GitOutcomes :
               /\ createGitBackup(git)
               /\ step' = IF world'.commits > world.commits THEN "url" ELSE "thrown"
       ELSE /\ step' = "url"
            /\ UNCHANGED <<world, calls>>
    /\ UNCHANGED <<options, kit, latest, licenseKey, tempDir, newKit, fsVars, mergeVars, studyVars>>

\* The git backup: in a repository, with --backup, or without --yes when
\* the user answers true to 'Create git backup commit first?'.
Backup ==
    /\ step = "backup"
    /\ step' = "url"
    /\ IF isGitRepo(world)
       THEN IF options.backup
            THEN \E git \in GitOutcomes : createGitBackup(git)
            ELSE IF ~options.yes
            THEN \E shouldBackup \in {"true", "false", "cancel"} :
                    IF shouldBackup = "true"
                    THEN \E git \in GitOutcomes : createGitBackup(git)
                    ELSE UNCHANGED <<world, calls>>
            ELSE UNCHANGED <<world, calls>>
       ELSE UNCHANGED <<world, calls>>
    /\ UNCHANGED <<options, kit, latest, licenseKey, tempDir, newKit, fsVars, mergeVars, studyVars>>

\* The Authorization header of getDownloadUrl's request; "" is no header.
Authorization(key) == IF key # "" THEN "Bearer" ELSE ""

\* getDownloadUrl(kitName, licenseKey): one request, with the Authorization
\* header when licenseKey is set; any answer but a well-formed 200 throws.
getDownloadUrl(key, onward) ==
    \E ret \in {"returned", "threw"} :
       /\ calls' = Append(Append(calls, Call("getDownloadUrl", key, ret)),
                          Call("fetchWithTimeout", Authorization(key), ret))
       /\ step' = IF ret = "returned" THEN onward ELSE "thrown"

\* downloadInfo = await getDownloadUrl(kit.name, licenseKey)
GetDownloadUrl ==
    /\ step = "url"
    /\ getDownloadUrl(licenseKey, "tempDir")
    /\ UNCHANGED <<world, options, kit, latest, licenseKey, tempDir, newKit,
                   fsVars, mergeVars, studyVars>>

\* A variant of Rethrow that throws the error on without the clean-up.
RethrowAtOnce(dir, w, log) ==
    /\ step' = "thrown"
    /\ world' = w
    /\ calls' = log

\* The catch of the download block: cleanupTempDir(tempDir) when tempDir is
\* set, then the error is thrown on.  fs.remove can fail, which is ignored.
Rethrow(dir, w, log) ==
    /\ step' = "thrown"
    /\ IF dir # ""
       THEN \E removed \in BOOLEAN :
               /\ world' = [w EXCEPT !.tempDirs = IF removed THEN "removed" ELSE "left"]
               /\ calls' = Append(log, Call("cleanupTempDir", dir,
                                            IF removed THEN "removed" ELSE "left"))
       ELSE world' = w /\ calls' = log

\* tempDir = await createTempDir('aiorg-upgrade-')
CreateTempDir ==
    /\ step = "tempDir"
    /\ \/ /\ tempDir' = "aiorg-upgrade-1"
          /\ world' = [world EXCEPT !.tempDirs = "present"]
          /\ calls' = Append(calls, Call("createTempDir", "", tempDir'))
          /\ step' = "download"
       \/ /\ tempDir' = ""
          /\ Rethrow(tempDir', world, Append(calls, Call("createTempDir", "", "threw")))
    /\ UNCHANGED <<options, kit, latest, licenseKey, newKit, fsVars, mergeVars, studyVars>>

\* downloadFile, saveToFile, getFileSizeKB
Download ==
    /\ step = "download"
    /\ \/ /\ calls' = Append(calls, Call("downloadFile", "", "returned"))
          /\ step' = "extract"
          /\ UNCHANGED world
       \/ Rethrow(tempDir, world, Append(calls, Call("downloadFile", "", "threw")))
    /\ UNCHANGED <<options, kit, latest, licenseKey, tempDir, newKit, fsVars, mergeVars, studyVars>>

\* await extractZipToDir(zipPath, extractPath)
Extract ==
    /\ step = "extract"
    /\ \/ /\ \E archive \in Archives(latest.version) :
                world' = [world EXCEPT !.extracted = archive]
          /\ calls' = Append(calls, Call("extractZipToDir", "", "returned"))
          /\ step' = "detectNew"
       \/ Rethrow(tempDir, world, Append(calls, Call("extractZipToDir", "", "threw")))
    /\ UNCHANGED <<options, kit, latest, licenseKey, tempDir, newKit, fsVars, mergeVars, studyVars>>

\* The entry of applyFileCategories(sourceDir, destDir, versionJson).
applyFileCategories(versionJson) ==
    /\ manifest' = versionJson.fileCategories
    /\ result' = EmptyResult
    /\ processedFiles' = {}
    /\ pos' = nextPos(manifest', 1, 0)
    /\ stage' = IF pos' = Done THEN "done" ELSE "expand"
    /\ files' = {}
    /\ before' = dest
    /\ UNCHANGED <<src, dest, faults, run, first, dispatched, claimedIn>>

\* A variant of DetectNew that applies the installed kit's version.json.
DetectNewApplyInstalled ==
    /\ step = "detectNew"
    /\ newKit' = detectKit(world.extracted)
    /\ step' = "apply"
    /\ calls' = Append(calls, Call("applyFileCategories", "", ""))
    /\ applyFileCategories(kit.versionJson)
    /\ UNCHANGED <<world, options, kit, latest, licenseKey, tempDir, mergeVars, studyVars>>

\* newKit = await detectKit(extractPath); null is thrown as an error;
\* otherwise applyFileCategories(extractPath, kit.rootPath, newKit.versionJson)
\* is called.
DetectNew ==
    /\ step = "detectNew"
    /\ newKit' = detectKit(world.extracted)
    /\ IF ~newKit'.found
       THEN /\ Rethrow(tempDir, world, calls)
            /\ UNCHANGED fsVars
       ELSE /\ step' = "apply"
            /\ calls' = Append(calls, Call("applyFileCategories", "", ""))
            /\ applyFileCategories(newKit'.versionJson)
            /\ UNCHANGED world
    /\ UNCHANGED <<options, kit, latest, licenseKey, tempDir, mergeVars, studyVars>>

\* applyFileCategories has returned: the upgrade marker is written, the
\* summary printed and the temporary directory cleaned up.
Finish ==
    /\ step = "apply"
    /\ stage = "done"
    /\ \/ \E removed \in BOOLEAN :
            /\ world' = [world EXCEPT !.tempDirs = IF removed THEN "removed" ELSE "left"]
            /\ calls' = Append(calls, Call("cleanupTempDir", tempDir,
                                           IF removed THEN "removed" ELSE "left"))
            /\ step' = "complete"
       \/ Rethrow(tempDir, world, Append(calls, Call("writeFile", "", "threw")))
    /\ UNCHANGED <<options, kit, latest, licenseKey, tempDir, newKit, fsVars, mergeVars, studyVars>>

UpgradeNext ==
    \/ Detect \/ ProjectLink \/ FetchLatest \/ Confirm \/ License \/ Backup
    \/ GetDownloadUrl \/ CreateTempDir \/ Download \/ Extract \/ DetectNew
    \/ Expand \/ ExpandFails \/ AlwaysReplace \/ MergeIfChanged \/ AddOnly
    \/ Finish

UpgradeSpec == UpgradeInit /\ [][UpgradeNext]_vars

(***************************************************************************)
(* init(kitName, targetPath, options): the command from the check of the   *)
(* target folder to the project setup.  It runs on the variables of the    *)
(* upgrade command; world.target is the target folder.                     *)
(***************************************************************************)
\* The target folder: missing, empty, holding files, or holding files while
\* readdir fails on it (no read permission).
Targets == {"missing", "empty", "files", "files, not listable"}

\* dirExistsAndNotEmpty(dirPath): pathExists, then readdir; anything thrown
\* returns false.
dirExistsAndNotEmpty(target) == target = "files"

InitInit ==
    /\ world \in [installed : {Unreadable("missing")}, envKey : {"", "ak_env"},
                  configKey : {"", "ak_saved"}, repo : {FALSE}, dirty : {FALSE},
                  commits : {0}, tempDirs : {"none"},
                  extracted : {Unreadable("missing")}, target : Targets]
    /\ step = "init.check"
    /\ options \in [yes : {FALSE}, backup : {FALSE}, force : BOOLEAN]
    /\ kit = NoKit
    /\ latest = NoLatest
    /\ licenseKey = ""
    /\ tempDir = ""
    /\ newKit = NoKit
    /\ calls = <<>>
    /\ ApplyOff
    /\ StudyOff

\* if (!options.force && (await dirExistsAndNotEmpty(resolvedPath))) exit 1
InitCheck ==
    /\ step = "init.check"
    /\ IF options.force
       THEN step' = "init.fetch" /\ UNCHANGED calls
       ELSE /\ calls' = Append(calls, Call("dirExistsAndNotEmpty", world.target,
                                  IF dirExistsAndNotEmpty(world.target) THEN "true"
                                  ELSE "false"))
            /\ step' = IF dirExistsAndNotEmpty(world.target) THEN "exit1"
                       ELSE "init.fetch"
    /\ UNCHANGED <<world, options, kit, latest, licenseKey, tempDir, newKit,
                   fsVars, mergeVars, studyVars>>

\* versionInfo = await fetchLatestVersion(kitName); a failure is thrown on.
InitFetch ==
    /\ step = "init.fetch"
    /\ \/ /\ calls' = Append(calls, Call("fetchLatestVersion", "", "threw"))
          /\ step' = "thrown"
          /\ UNCHANGED latest
       \/ /\ calls' = Append(calls, Call("fetchLatestVersion", "", "returned"))
          /\ latest' \in [version : {V110}, tier : Tiers]
          /\ step' = "init.license"
    /\ UNCHANGED <<world, options, kit, licenseKey, tempDir, newKit, fsVars, mergeVars, studyVars>>

\* The license of the kit to install.
InitLicense ==
    /\ step = "init.license"
    /\ requireLicense("init.url")
    /\ UNCHANGED <<options, kit, latest, tempDir, newKit, fsVars, mergeVars, studyVars>>

\* downloadInfo = await getDownloadUrl(kitName, licenseKey)
InitGetDownloadUrl ==
    /\ step = "init.url"
    /\ getDownloadUrl(licenseKey, "init.tempDir")
    /\ UNCHANGED <<world, options, kit, latest, licenseKey, tempDir, newKit,
                   fsVars, mergeVars, studyVars>>

\* tempDir = await createTempDir('aiorg-init-'), then downloadFile,
\* saveToFile and getFileSizeKB; a failure cleans up and is thrown on.
InitDownload ==
    /\ step = "init.tempDir"
    /\ \/ /\ tempDir' = ""
          /\ Rethrow(tempDir', world, Append(calls, Call("createTempDir", "", "threw")))
       \/ /\ tempDir' = "aiorg-init-1"
          /\ LET made == [world EXCEPT !.tempDirs = "present"]
                 log == Append(calls, Call("createTempDir", "", tempDir'))
             IN  \/ /\ world' = made
                    /\ calls' = Append(log, Call("downloadFile", "", "returned"))
                    /\ step' = "init.extract"
                 \/ Rethrow(tempDir', made, Append(log, Call("downloadFile", "", "threw")))
    /\ UNCHANGED <<options, kit, latest, licenseKey, newKit, fsVars, mergeVars, studyVars>>

\* The target folder after extractZipToDir has written the kit's files.
extractedOver(target) ==
    IF target \in {"missing", "empty", "kit"} THEN "kit" ELSE "kit over files"

\* await extractZipToDir(zipPath, resolvedPath); await cleanupTempDir(tempDir).
\* A failing extraction may have written some of the files.
InitExtract ==
    /\ step = "init.extract"
    /\ \/ \E removed \in BOOLEAN :
            /\ world' = [world EXCEPT !.target = extractedOver(@),
                                       !.tempDirs = IF removed THEN "removed" ELSE "left"]
            /\ calls' = Append(Append(calls,
                                 Call("extractZipToDir", world.target, "returned")),
                                 Call("cleanupTempDir", tempDir,
                                      IF removed THEN "removed" ELSE "left"))
            /\ step' = "init.setup"
       \/ \E after \in {world.target, extractedOver(world.target)} :
            Rethrow(tempDir, [world EXCEPT !.target = after],
                    Append(calls, Call("extractZipToDir", world.target, "threw")))
    /\ UNCHANGED <<options, kit, latest, licenseKey, tempDir, newKit, fsVars, mergeVars, studyVars>>

\* await setupProject(resolvedPath, kitName)
InitSetup ==
    /\ step = "init.setup"
    /\ \E ret \in {"returned", "threw"} :
          /\ calls' = Append(calls, Call("setupProject", "", ret))
          /\ step' = IF ret = "returned" THEN "complete" ELSE "thrown"
    /\ UNCHANGED <<world, options, kit, latest, licenseKey, tempDir, newKit,
                   fsVars, mergeVars, studyVars>>

InitNext ==
    \/ InitCheck \/ InitFetch \/ InitLicense \/ InitGetDownloadUrl
    \/ InitDownload \/ InitExtract \/ InitSetup

\* Either command, once.
CommandInit == UpgradeInit \/ InitInit

CommandNext == UpgradeNext \/ InitNext

CommandSpec == CommandInit /\ [][CommandNext]_vars

(***************************************************************************)
(* matchesPattern against glob: one pattern, one source directory; the     *)
(* pattern is expanded as the category loops expand it, and one source     *)
(* file is tested as the neverTouch test tests it.                         *)
(***************************************************************************)
MatchInit ==
    /\ match \in [stage : {"start"}, pattern : MatchPatterns,
                   tree : [MatchFiles -> {Absent, TextFile("shipped")}],
                   expanded : {{}}, filePath : {<<>>}, member : {FALSE}]
    /\ project = NoProject
    /\ ApplyOff
    /\ UpgradeOff

\* const files = await glob(pattern, {cwd: sourceDir, dot: true, nodir: true})
MatchExpand ==
    /\ match.stage = "start"
    /\ match' = [match EXCEPT !.stage = "expanded",
                               !.expanded = glob(match.pattern, match.tree)]
    /\ UNCHANGED <<project, fsVars, mergeVars, upgradeVars>>

\* matchesPattern(file, pattern) for one file of the source directory.
MatchMember ==
    /\ match.stage = "expanded"
    /\ \E f \in MatchFiles :
          /\ pathExists(match.tree, f)
          /\ match' = [match EXCEPT !.stage = "tested", !.filePath = f,
                                     !.member = matchesPattern(f, match.pattern)]
    /\ UNCHANGED <<project, fsVars, mergeVars, upgradeVars>>

MatchNext == MatchExpand \/ MatchMember

MatchSpec == MatchInit /\ [][MatchNext]_vars

(***************************************************************************)
(* Projects: context.json of one project under createProject and           *)
(* addKitToProject, and the .aiorg link file of one folder under           *)
(* writeAiorgFile, readAiorgFile and needsProjectMigration.  Writes can    *)
(* fail and then leave the file as it was or cut short.                    *)
(***************************************************************************)
\* The calls of one run.
MaxCalls == 4

\* A file that is cut short or otherwise no JSON document.
Malformed(file) == [file EXCEPT !.kind = "malformed"]

ProjectInit ==
    /\ project \in
          [stage : {"run"}, context : {NoContext},
           aiorg : {AiorgFile("absent", "undefined", "", ""),
                    AiorgFile("malformed", "undefined", "", ""),
                    AiorgFile("json", "undefined", "", "1.0.0"),
                    AiorgFile("json", "number", "", ""),
                    AiorgFile("json", "string", "alpha", "")},
           claudeDir : BOOLEAN, versionJson : BOOLEAN, added : {{}},
           last : {[fn |-> "", arg |-> "", ret |-> ""]}, prev : {NoContext},
           clock : {0}]
    /\ project.versionJson => project.claudeDir
    /\ match = NoMatch
    /\ ApplyOff
    /\ UpgradeOff

\* This call and what it returned; prev is context.json before the call.
Called(fn, arg, ret) ==
    [project EXCEPT !.last = [fn |-> fn, arg |-> arg, ret |-> ret],
                    !.prev = project.context, !.clock = @ + 1]

\* createProject(projectName, kitName): context.json is written with
\* installedKits [kitName], whatever the project held before; a failing
\* write is thrown on.
CreateProject ==
    /\ project.clock < MaxCalls
    /\ \E kitName \in {"kit-1", "kit-2"} :
          \/ project' = [Called("createProject", kitName, "returned") EXCEPT
                            !.context = ContextJson(<<kitName>>, project.clock + 1,
                                                    kitName),
                            !.added = @ \cup {kitName}]
          \/ \E left \in {project.context, Malformed(NoContext)} :
                project' = [Called("createProject", kitName, "threw") EXCEPT
                               !.context = left]
    /\ UNCHANGED <<match, fsVars, mergeVars, upgradeVars>>

\* addKitToProject(projectName, kitName): nothing without context.json;
\* otherwise the kit is pushed unless installedKits includes it, and the
\* document is written back; whatever the read or the write throws is
\* ignored.
AddKitToProject ==
    /\ project.clock < MaxCalls
    /\ \E kitName \in {"kit-1", "kit-2"} :
          LET after(context) ==
                 [Called("addKitToProject", kitName, "returned") EXCEPT
                     !.context = context, !.added = @ \cup {kitName}]
              context == project.context
          IN  IF context.kind = "absent"
              THEN project' = Called("addKitToProject", kitName, "no project")
              ELSE IF context.kind = "malformed"
              THEN project' = after(context)
              ELSE IF kitName \in InSet(context.installedKits)
              THEN project' = after(context)
              ELSE \/ project' = after([context EXCEPT
                                           !.installedKits = Append(@, kitName),
                                           !.lastUpdated = project.clock + 1])
                   \/ \E left \in {context, Malformed(NoContext)} :
                         project' = after(left)
    /\ UNCHANGED <<match, fsVars, mergeVars, upgradeVars>>

\* readAiorgFile(dirPath): the project of the link file, or "null" when the
\* file is missing, is no JSON or fails AiorgFileSchema (project is a
\* string, version a string or missing).
readAiorgFile(dir) ==
    IF dir.aiorg.kind = "absent" THEN "null"
    ELSE IF dir.aiorg.kind = "json" /\ dir.aiorg.projectType = "string"
    THEN dir.aiorg.project
    ELSE "null"

\* A variant of needsProjectMigration that does not look at the link file.
needsProjectMigrationOfKit(dir) == dir.claudeDir /\ dir.versionJson

\* needsProjectMigration(dirPath)
needsProjectMigration(dir) ==
    IF readAiorgFile(dir) # "null" THEN FALSE
    ELSE dir.claudeDir /\ dir.versionJson

\* writeAiorgFile(dirPath, projectName): {project, version: '1.0.0'} is
\* written; a failing write is thrown on.
WriteAiorgFile ==
    /\ project.clock < MaxCalls
    /\ \E projectName \in {"alpha", "beta"} :
          \/ project' = [Called("writeAiorgFile", projectName, "returned") EXCEPT
                            !.aiorg = AiorgFile("json", "string", projectName, "1.0.0")]
          \/ \E left \in {project.aiorg, Malformed(project.aiorg)} :
                project' = [Called("writeAiorgFile", projectName, "threw") EXCEPT
                               !.aiorg = left]
    /\ UNCHANGED <<match, fsVars, mergeVars, upgradeVars>>

\* A call of needsProjectMigration(dirPath) on the folder.
NeedsProjectMigration ==
    /\ project.clock < MaxCalls
    /\ project' = Called("needsProjectMigration", "",
                         IF needsProjectMigration(project) THEN "true" ELSE "false")
    /\ UNCHANGED <<match, fsVars, mergeVars, upgradeVars>>

ProjectNext ==
    \/ CreateProject \/ AddKitToProject \/ WriteAiorgFile \/ NeedsProjectMigration

ProjectSpec == ProjectInit /\ [][ProjectNext]_vars

(***************************************************************************)
(* Properties.                                                             *)
(***************************************************************************)
\* The reference deep merge: keys that hold an object on both sides are
\* merged key by key; everywhere else the overlay's value wins, arrays
\* included.
RECURSIVE deepMerge(_, _)
deepMerge(base, overlay) ==
    IF isPlainObject(base) /\ isPlainObject(overlay)
    THEN Obj([k \in (DOMAIN base.o) \cup (DOMAIN overlay.o) |->
                IF k \in DOMAIN overlay.o
                THEN IF k \in DOMAIN base.o
                     THEN deepMerge(base.o[k], overlay.o[k])
                     ELSE overlay.o[k]
                ELSE base.o[k]])
    ELSE overlay

MatchesAny(f, list) == \E i \in 1..Len(list) : matchOne(f, list[i])

Replaced == InSet(result.replaced)

Merged == InSet(result.merged)

Added == InSet(result.added)

Skipped == InSet(result.skipped)

Errors == InSet(result.errors)

Shipped == {f \in SourceFiles : pathExists(src, f)}

\* C1: a source file that matches a neverTouch pattern has, at every point
\* of a call, the destination content (or absence) it had when the call
\* started, whatever other lists it matches.
C1_NeverTouchPreserved ==
    \A f \in Shipped : MatchesAny(f, manifest.neverTouch) => dest[f] = before[f]

\* A call has returned in which a protected file that alwaysReplace also
\* expands to, and whose shipped content differs, was skipped while another
\* file was replaced.
C1_Witness ==
    /\ stage = "done"
    /\ \E f \in Shipped :
        /\ MatchesAny(f, manifest.neverTouch)
        /\ MatchesAny(f, manifest.alwaysReplace)
        /\ src[f] # before[f]
        /\ f \in Skipped
    /\ Replaced # {}

CopyFailed(f) == Error("Failed to copy", f) \in Errors

ExpansionFailed(f) ==
    \E e \in Errors : e.msg = "Failed to process pattern" /\ matchOne(f, e.subject)

\* C2 as stated: when the call has returned, every file that matches an
\* alwaysReplace pattern and no neverTouch pattern, and for which no copy
\* failed, holds the source content at the destination and is in replaced.
C2_Original ==
    stage = "done" =>
        \A f \in Shipped :
            /\ MatchesAny(f, manifest.alwaysReplace)
            /\ ~MatchesAny(f, manifest.neverTouch)
            /\ ~CopyFailed(f)
            => dest[f] = src[f] /\ f \in Replaced

\* C2 (amended): the same for every such file for which neither a copy nor
\* the expansion of an alwaysReplace pattern matching it failed.
C2_AlwaysReplaceCopies ==
    stage = "done" =>
        \A f \in Shipped :
            /\ MatchesAny(f, manifest.alwaysReplace)
            /\ ~MatchesAny(f, manifest.neverTouch)
            /\ ~CopyFailed(f)
            /\ ~ExpansionFailed(f)
            => dest[f] = src[f] /\ f \in Replaced

\* A call has returned that overwrote an existing, different destination
\* file and created one that was absent, both through alwaysReplace.
C2_Witness ==
    /\ stage = "done"
    /\ \E f, g \in Shipped :
        /\ MatchesAny(f, manifest.alwaysReplace) /\ MatchesAny(g, manifest.alwaysReplace)
        /\ pathExists(before, f) /\ before[f] # src[f] /\ dest[f] = src[f]
        /\ ~pathExists(before, g) /\ dest[g] = src[g]
        /\ {f, g} \subseteq Replaced

\* C3: a path recorded under merged holds the reference deep merge of the
\* source document (base) and the destination document the call found
\* (overlay): the destination's values kept, the source-only keys added.
C3_MergedIsDeepMerge ==
    \A f \in Merged :
        /\ dest[f].kind = "json"
        /\ dest[f].doc = deepMerge(src[f].doc, before[f].doc)

\* C4: when a key holds an array in both documents, the merged document
\* holds the existing (overlay) document's array under that key.
C4_ArraysAtomic ==
    mStage = "merged" =>
        \A k \in (DOMAIN mIncoming.o) \cap (DOMAIN mExisting.o) :
            isArray(mIncoming.o[k]) /\ isArray(mExisting.o[k])
            => mMerged.o[k] = mExisting.o[k]

\* C5: the merged document is the reference deep merge of the incoming
\* document (base) and the existing document (overlay).
C5_AgreesWithReference ==
    mStage = "merged" => mMerged = deepMerge(mIncoming, mExisting)

\* C8: merging the written document once more under the same existing
\* document gives the written document again.
C8_MergeIdempotent ==
    mStage = "againExisting" => mAgain = mMerged

\* The repeated merge has run on documents whose arrays under one key have
\* different lengths, and the first merge changed the existing document.
C8_Witness ==
    /\ mStage = "againExisting"
    /\ "a" \in (DOMAIN mIncoming.o) \cap (DOMAIN mExisting.o)
    /\ isArray(mIncoming.o["a"]) /\ isArray(mExisting.o["a"])
    /\ Len(mIncoming.o["a"].a) > Len(mExisting.o["a"].a)
    /\ Len(mExisting.o["a"].a) > 0
    /\ mMerged # mExisting
    /\ mAgain = mMerged

\* The addOnly action is run on f in this step.
AddOnlyActsOn(f) == dispatched'[f] = Append(dispatched[f], "addOnly")

\* The addOnly action of the first call recorded f under added or skipped.
AddOnlySettled(f) ==
    /\ run = 2
    /\ first.dispatched[f] # <<>>
    /\ first.dispatched[f][Len(first.dispatched[f])] = "addOnly"
    /\ f \in first.result.added \cup first.result.skipped

\* C6 as stated: whenever the addOnly action runs on a file, a file absent
\* at the destination is copied and recorded under added, a file present is
\* left as it is and recorded under skipped; and when the second call has
\* returned, every file the first call's addOnly action ran on is under
\* skipped with the content the first call left.
C6_Original ==
    [][ /\ \A f \in SourceFiles : AddOnlyActsOn(f) =>
              IF ~pathExists(dest, f)
              THEN dest'[f] = src[f] /\ f \in Added'
              ELSE dest'[f] = dest[f] /\ f \in Skipped'
        /\ (stage' = "done" /\ run' = 2) =>
              \A f \in SourceFiles :
                  "addOnly" \in InSet(first'.dispatched[f])
                  => f \in Skipped' /\ dest'[f] = first'.dest[f] ]_vars

\* C6 (amended): whenever the addOnly action runs on a file, a file absent
\* at the destination is copied and recorded under added, unless the copy
\* fails, and then an error names the file, which enters neither added nor
\* skipped; a file present is left as it is and recorded under skipped.
\* When the second call's addOnly action runs on a file that the first
\* call's addOnly action added or skipped, it records the file under skipped
\* and leaves its content as it is.
C6_AddOnly ==
    [][ \A f \in SourceFiles : AddOnlyActsOn(f) =>
          /\ IF ~pathExists(dest, f)
             THEN \/ dest'[f] = src[f] /\ f \in Added' /\ f \notin Skipped'
                  \/ /\ result'.errors = Append(result.errors, Error("Failed to add", f))
                     /\ f \notin Added' \cup Skipped'
             ELSE dest'[f] = dest[f] /\ f \in Skipped' /\ f \notin Added'
          /\ AddOnlySettled(f) => dest'[f] = dest[f] /\ f \in Skipped' ]_vars

\* The second call has returned having skipped, through addOnly, a file that
\* the first call added through addOnly, and the file holds the source
\* content the first call copied.
C6_Witness ==
    /\ stage = "done"
    /\ run = 2
    /\ \E f \in Shipped :
        /\ AddOnlySettled(f)
        /\ f \in first.result.added
        /\ dispatched[f] = <<"addOnly">>
        /\ f \in Skipped
        /\ dest[f] = src[f]
        /\ dest[f] = first.dest[f]

NoFailure == first.result.errors = {} /\ Errors = {}

C9_ClaimOnce ==
    \A f \in SourceFiles :
        /\ claimedIn[f] = "alwaysReplace" => f \notin Merged \cup Added
        /\ claimedIn[f] = "mergeIfChanged" => f \notin Added

\* A call has returned in which a file claimed by alwaysReplace is also
\* matched by a mergeIfChanged and an addOnly pattern, and a file claimed by
\* mergeIfChanged also by an addOnly pattern.
C9_Witness ==
    /\ stage = "done"
    /\ \E f, g \in Shipped :
        /\ claimedIn[f] = "alwaysReplace" /\ f \in Replaced
        /\ MatchesAny(f, manifest.mergeIfChanged) /\ MatchesAny(f, manifest.addOnly)
        /\ claimedIn[g] = "mergeIfChanged" /\ g \in Merged
        /\ MatchesAny(g, manifest.addOnly)

\* The expansion of a pattern of list c that matches f was rejected.
ExpansionOfFailed(c, f) ==
    \E e \in Errors :
        /\ e.msg = (CASE c = 1 -> "Failed to process pattern"
                      [] c = 2 -> "Failed to process merge pattern"
                      [] OTHER -> "Failed to process addOnly pattern")
        /\ e.subject \in InSet(manifest[Order[c]])
        /\ matchOne(f, e.subject)

\* C10: in a call every file is dispatched to at most one category action,
\* and that is the action of the first list, in the fixed order, with a
\* pattern matching the file (a list whose expansion was rejected aside).
C10_DispatchedOnce ==
    \A f \in SourceFiles :
        /\ Len(dispatched[f]) <= 1
        /\ \A c \in 1..3 :
              dispatched[f] = <<Order[c]>> =>
                  \A b \in 1..(c - 1) :
                      MatchesAny(f, manifest[Order[b]]) => ExpansionOfFailed(b, f)

\* An error of the call names f as the file whose category action failed.
ActionFailed(f) ==
    \E e \in Errors :
        /\ e.subject = f
        /\ e.msg \in {"Failed to copy", "Failed to merge", "Failed to add"}

\* C11: a file whose category action failed is in none of replaced, merged,
\* added and skipped of the result, whatever patterns expand to it later.
C11_FailedOnlyInErrors ==
    \A f \in SourceFiles :
        ActionFailed(f) => f \notin Replaced \cup Merged \cup Added \cup Skipped

\* The patterns the loops have still to expand, the current one included.
PatternsLeft ==
    IF pos = Done THEN 0
    ELSE (Len(manifest[Order[pos.cat]]) - pos.pi + 1)
         + (IF pos.cat < 2 THEN Len(manifest.mergeIfChanged) ELSE 0)
         + (IF pos.cat < 3 THEN Len(manifest.addOnly) ELSE 0)

\* A bound on the steps the call has still to take.
StepsLeft ==
    PatternsLeft * (Cardinality(SourceFiles) + 2)
    + (IF stage = "expand" THEN Cardinality(SourceFiles) + 1 ELSE Cardinality(files))

\* This step's merge action reads a document of f that does not parse.
ParseFailsOn(f) ==
    /\ dispatched'[f] = Append(dispatched[f], "mergeIfChanged")
    /\ pathExists(dest, f) /\ endsWithJson(f)
    /\ ~(canReadJson(src[f]) /\ canReadJson(dest[f]))

\* C12: a call never leaves through an exception.  It is always expanding a
\* pattern, inside a pattern's files, or returned; until it has returned the
\* step of its loop is possible, and every step of the call brings the
\* return nearer;
\* every step in which an expansion, copy or write fails or a document does
\* not parse appends one entry to errors and changes no other list.
C12_NeverRaises ==
    /\ [](/\ stage \in {"expand", "files", "done"}
          /\ stage = "expand" => ENABLED Expand
          /\ stage = "files" /\ pos.cat = 1 => ENABLED AlwaysReplace
          /\ stage = "files" /\ pos.cat = 2 => ENABLED MergeIfChanged
          /\ stage = "files" /\ pos.cat = 3 => ENABLED AddOnly)
    /\ [][ /\ run' = run => StepsLeft' < StepsLeft
           /\ (faults' < faults \/ \E f \in SourceFiles : ParseFailsOn(f)) =>
                 /\ Len(result'.errors) = Len(result.errors) + 1
                 /\ SubSeq(result'.errors, 1, Len(result.errors)) = result.errors
                 /\ \A l \in {"replaced", "merged", "added", "skipped"} :
                       result'[l] = result[l] ]_vars

\* A call has returned after a rejected expansion and a document that did
\* not parse, both in errors, having gone on to record an outcome.
C12_Witness ==
    /\ stage = "done"
    /\ \E e \in Errors : e.msg \in {"Failed to process pattern", "Failed to process merge pattern"}
    /\ \E f \in Shipped :
          /\ Error("Failed to merge", f) \in Errors
          /\ ~canReadJson(src[f]) \/ ~canReadJson(before[f])
    /\ Added \cup Skipped \cup Replaced # {}

\* The message of the outer catch of loop c.
PatternMessage(c) ==
    CASE c = 1 -> "Failed to process pattern"
      [] c = 2 -> "Failed to process merge pattern"
      [] OTHER -> "Failed to process addOnly pattern"

\* The message of the inner catch of loop c.
FileMessage(c) ==
    CASE c = 1 -> "Failed to copy"
      [] c = 2 -> "Failed to merge"
      [] OTHER -> "Failed to add"

\* C13: a failure does not stop the call.  The step in which an expansion is
\* rejected records an error naming the pattern and moves to the pattern
\* after it; the step in which a file's action fails moves to the pattern's
\* next file or, after the last, to the pattern after it.  When the call has
\* returned, every pattern of every list has an error naming it or has had
\* each file of its expansion claimed or recorded as failed in its loop.
C13_FailureDoesNotStop ==
    /\ [](stage = "done" =>
            \A c \in 1..3 : \A i \in 1..Len(manifest[Order[c]]) :
                \/ Error(PatternMessage(c), manifest[Order[c]][i]) \in Errors
                \/ \A f \in glob(manifest[Order[c]][i], src) :
                      \/ f \in processedFiles
                      \/ Error(FileMessage(c), f) \in Errors)
    /\ [][ /\ (stage = "expand" /\ faults' < faults) =>
                 /\ result'.errors = Append(result.errors, Error(PatternMessage(pos.cat), pattern))
                 /\ pos' = nextPos(manifest, pos.cat, pos.pi)
           /\ (stage = "files" /\ Len(result'.errors) > Len(result.errors)) =>
                 IF Cardinality(files) > 1
                 THEN pos' = pos /\ stage' = "files" /\ Cardinality(files') = Cardinality(files) - 1
                 ELSE pos' = nextPos(manifest, pos.cat, pos.pi)
           /\ (run' = run /\ stage' = "done") => nextPos(manifest, pos.cat, pos.pi) = Done ]_vars

\* A call has returned in which the copy of one file failed, another file of
\* the same alwaysReplace pattern was replaced, and a later category claimed
\* a file.
C13_Witness ==
    /\ stage = "done"
    /\ \E f, g \in Shipped :
          /\ f # g
          /\ CopyFailed(f)
          /\ g \in Replaced
          /\ \E i \in 1..Len(manifest.alwaysReplace) :
                {f, g} \subseteq glob(manifest.alwaysReplace[i], src)
    /\ \E h \in Shipped : claimedIn[h] \in {"mergeIfChanged", "addOnly"}

\* C14: when the merge action runs on a .json file that exists at the
\* destination and the source or the destination document does not parse,
\* the step appends the error "Failed to merge" naming the file and leaves
\* the destination file, and every other destination file, as it was.
C14_MalformedKeepsDestination ==
    [][ \A f \in SourceFiles : ParseFailsOn(f) =>
          /\ result'.errors = Append(result.errors, Error("Failed to merge", f))
          /\ dest'[f] = dest[f]
          /\ dest' = dest ]_vars

\* A call has returned, without an I/O failure, from a manifest that merges
\* and then adds a .json file the user left malformed: the error is recorded
\* and the file holds the user's text.
C14_Witness ==
    /\ stage = "done"
    /\ run = 1
    /\ faults = MaxFaults
    /\ \E f \in Shipped :
          /\ endsWithJson(f)
          /\ canReadJson(src[f])
          /\ before[f].kind = "bad"
          /\ "mergeIfChanged" \in InSet(dispatched[f])
          /\ Error("Failed to merge", f) \in Errors
          /\ dest[f] = before[f]

\* The merge action runs on f in this step and records an error.
MergeActionFailsOn(f) ==
    /\ dispatched'[f] = Append(dispatched[f], "mergeIfChanged")
    /\ result'.errors = Append(result.errors, Error("Failed to merge", f))

\* C15: a step of the merge action that records an error leaves every
\* destination file as it was before the step: a failed write-back leaves
\* the previous document, a failed first-install copy no file.
C15_FailedMergeLeavesTree ==
    [][ \A f \in SourceFiles : MergeActionFailsOn(f) => dest' = dest ]_vars

\* The mergeIfChanged action is run on f in this step.
MergeActsOn(f) == dispatched'[f] = Append(dispatched[f], "mergeIfChanged")

\* C16 as stated: whenever the mergeIfChanged action runs on a file that is
\* absent at the destination, the destination then holds the source content
\* and the path is under replaced and under neither merged nor added.
C16_Original ==
    [][ \A f \in SourceFiles : (MergeActsOn(f) /\ ~pathExists(dest, f)) =>
          /\ dest'[f] = src[f]
          /\ f \in Replaced'
          /\ f \notin Merged' \cup Added' ]_vars

\* C16 (amended): whenever the mergeIfChanged action runs on a file that is
\* absent at the destination, either the destination then holds the source
\* content and the path is appended to replaced, or the copy fails, the
\* error "Failed to merge" names the file and the path enters no list; in
\* both cases the path is under neither merged nor added.
C16_FirstInstallReplaced ==
    [][ \A f \in SourceFiles : (MergeActsOn(f) /\ ~pathExists(dest, f)) =>
          /\ \/ /\ dest'[f] = src[f]
                /\ result'.replaced = Append(result.replaced, f)
                /\ result'.errors = result.errors
             \/ /\ result'.errors = Append(result.errors, Error("Failed to merge", f))
                /\ result'.replaced = result.replaced
          /\ result'.merged = result.merged /\ result'.added = result.added
          /\ result'.skipped = result.skipped
          /\ f \notin Merged' \cup Added' ]_vars

\* A call has returned in which mergeIfChanged installed a .json file and a
\* file of another type, both absent before and both also matched by an
\* addOnly pattern: they are under replaced only.
C16_Witness ==
    /\ stage = "done"
    /\ \E f, g \in Shipped :
          /\ endsWithJson(f) /\ ~endsWithJson(g)
          /\ ~pathExists(before, f) /\ ~pathExists(before, g)
          /\ dispatched[f] = <<"mergeIfChanged">> /\ dispatched[g] = <<"mergeIfChanged">>
          /\ MatchesAny(f, manifest.addOnly) /\ MatchesAny(g, manifest.addOnly)
          /\ dest[f] = src[f] /\ dest[g] = src[g]
          /\ {f, g} \subseteq Replaced
          /\ {f, g} \cap (Merged \cup Added \cup Skipped) = {}

\* C17: whenever the mergeIfChanged action runs on a file that exists at the
\* destination and whose path does not end in .json, the step leaves the
\* destination tree as it is, appends the path to skipped and changes no
\* other list.
C17_NonJsonSkipped ==
    [][ \A f \in SourceFiles :
          (MergeActsOn(f) /\ pathExists(dest, f) /\ ~endsWithJson(f)) =>
              /\ dest' = dest
              /\ result'.skipped = Append(result.skipped, f)
              /\ \A l \in {"replaced", "merged", "added", "errors"} :
                    result'[l] = result[l] ]_vars

\* A call has returned in which mergeIfChanged met a file of another type
\* than .json that the user had changed: it is under skipped and holds the
\* user's content, not the shipped one.
C17_Witness ==
    /\ stage = "done"
    /\ \E f \in Shipped :
          /\ ~endsWithJson(f)
          /\ pathExists(before, f)
          /\ before[f] # src[f]
          /\ dispatched[f] = <<"mergeIfChanged">>
          /\ f \in Skipped
          /\ f \notin Replaced \cup Merged \cup Added
          /\ dest[f] = before[f]

\* One iteration of the file loop of category c on f when no copy or write
\* fails, as a function of the destination tree, the four outcome sets and
\* the claimed paths.
IterationOn(st, c, f) ==
    LET put(list) == [st EXCEPT ![list] = @ \cup {f},
                                !.processedFiles = @ \cup {f}]
        copy(list) == [put(list) EXCEPT !.dest[f] = src[f]]
    IN  IF f \in st.processedFiles THEN st
        ELSE IF shouldSkip(f) THEN put("skipped")
        ELSE IF c = 1 THEN copy("replaced")
        ELSE IF c = 3
             THEN IF pathExists(st.dest, f) THEN put("skipped") ELSE copy("added")
        ELSE IF pathExists(st.dest, f) /\ endsWithJson(f)
             THEN IF canReadJson(src[f]) /\ canReadJson(st.dest[f])
                  THEN [put("merged") EXCEPT !.dest[f] =
                           writeJson(merge(EmptyObj, readJson(src[f]),
                                           readJson(st.dest[f])))]
                  ELSE st
        ELSE IF pathExists(st.dest, f) THEN put("skipped")
        ELSE copy("replaced")

\* The file loop over an expansion, taken in one fixed order.
RECURSIVE InFixedOrder(_, _, _)
InFixedOrder(st, c, expansion) ==
    IF expansion = {} THEN st
    ELSE LET f == CHOOSE g \in expansion : TRUE
         IN  InFixedOrder(IterationOn(st, c, f), c, expansion \ {f})

\* The three pattern loops from pattern i of list c on, every expansion
\* taken in the fixed order.
RECURSIVE FromPattern(_, _, _)
FromPattern(st, c, i) ==
    IF c > 3 THEN st
    ELSE IF i > Len(manifest[Order[c]]) THEN FromPattern(st, c + 1, 1)
    ELSE FromPattern(InFixedOrder(st, c, glob(manifest[Order[c]][i], src)), c, i + 1)

\* What the call that started from the tree `before` leaves when it takes
\* every expansion in the fixed order.
FixedOrderRun ==
    FromPattern([dest |-> before, replaced |-> {}, merged |-> {}, added |-> {},
                 skipped |-> {}, processedFiles |-> {}], 1, 1)

\* C18: a call in which no expansion, copy or write fails leaves, whatever
\* the order in which it takes the files of each expansion, the destination
\* tree and the replaced, merged, added and skipped paths of the call that
\* takes them in one fixed order.
C18_OrderIndependent ==
    (stage = "done" /\ run = 1 /\ faults = MaxFaults) =>
        /\ dest = FixedOrderRun.dest
        /\ Replaced = FixedOrderRun.replaced
        /\ Merged = FixedOrderRun.merged
        /\ Added = FixedOrderRun.added
        /\ Skipped = FixedOrderRun.skipped

\* A call has returned that took the three files of one expansion in the
\* order .claude/settings.json, notes.txt, config.json, merging the first
\* and the last.
C18_Witness ==
    /\ stage = "done"
    /\ run = 1
    /\ faults = MaxFaults
    /\ manifest.mergeIfChanged = <<PatAll>>
    /\ result.merged = <<SettingsJson, ConfigJson>>
    /\ dest[ConfigJson] # before[ConfigJson]
    /\ NotesTxt \in Skipped \cup Replaced
    /\ dispatched[NotesTxt] = <<"mergeIfChanged">>

\* The calls of fn that upgrade() has made, as indices of the history.
CallsOf(fn) == {i \in 1..Len(calls) : calls[i].fn = fn}

\* This step appends a call of fn to the history.
Calling(fn) == Len(calls') = Len(calls) + 1 /\ calls'[Len(calls')].fn = fn

\* C19: while and after applyFileCategories runs in an upgrade, the manifest
\* it works from is the fileCategories of the version.json detectKit read
\* from the extracted archive, and not that of the installed kit where the
\* two differ; when that version.json is missing or unreadable, the step
\* after the extraction ends the upgrade with the error thrown and
\* applyFileCategories is neither started then nor found in the history of
\* an upgrade that has ended so.
C19_NewManifestApplied ==
    /\ [](CallsOf("applyFileCategories") # {} =>
            /\ world.extracted.kind = "ok"
            /\ newKit = detectKit(world.extracted)
            /\ manifest = world.extracted.fileCategories
            /\ kit.versionJson.fileCategories # world.extracted.fileCategories
                  => manifest # kit.versionJson.fileCategories)
    /\ [][ (step = "detectNew" /\ world.extracted.kind # "ok") =>
              /\ step' = "thrown"
              /\ stage' = "off"
              /\ CallsOf("applyFileCategories")' = {} ]_vars

\* An upgrade has completed from an installed kit whose manifest replaces
\* every file to a version whose manifest protects notes.txt and merges
\* config.json: config.json was merged and notes.txt skipped.
C19_Witness ==
    /\ step = "complete"
    /\ kit.versionJson.fileCategories = OldCategories
    /\ manifest = NewCategories
    /\ ConfigJson \in Merged
    /\ NotesTxt \in Skipped
    /\ dest[ConfigJson].doc = mergedDocument(ShippedConfig, UserConfig)

C21_MembershipIsExpansion ==
    match.stage = "tested" => (match.member <=> match.filePath \in match.expanded)

\* A pattern that starts with "#" expands to the file of that name, and the
\* neverTouch test does not recognise the file.
C21_Witness ==
    /\ match.stage = "tested"
    /\ match.pattern = HashNotes
    /\ match.filePath \in match.expanded
    /\ ~match.member

\* C22: with AIORG_LICENSE_KEY set, init and upgrade of a kit that is not
\* free never invoke the login flow, and the key they request the download
\* URL with is the key of the environment.
C22_EnvKeyReplacesLogin ==
    world.envKey # "" =>
        /\ CallsOf("login") = {}
        /\ \A i \in 1..Len(calls) :
              calls[i].fn = "getDownloadUrl" /\ latest.tier # "free"
                  => calls[i].arg = world.envKey

\* The target folder exists and holds files.
NotEmpty(target) == target \in {"files", "files, not listable"}

\* C23: init without --force on a target folder that exists and is not
\* empty stops with exit code 1 before any version fetch, download or
\* extraction and leaves the folder as it was; an extraction into a folder
\* that holds files happens only with --force.
C23_NonEmptyTargetNeedsForce ==
    /\ calls # <<>> /\ calls[1].fn = "dirExistsAndNotEmpty" /\ NotEmpty(calls[1].arg)
          => /\ step = "exit1"
             /\ CallsOf("fetchLatestVersion") = {}
             /\ CallsOf("downloadFile") = {}
             /\ CallsOf("extractZipToDir") = {}
             /\ world.target = calls[1].arg
    /\ \A i \in CallsOf("extractZipToDir") : NotEmpty(calls[i].arg) => options.force

\* C24: after any sequence of createProject and addKitToProject calls,
\* installedKits of context.json holds every kit that was added and no kit
\* twice, and addKitToProject with a kit already listed leaves context.json
\* as it was.
C24_InstalledKitsComplete ==
    LET installedKits == project.context.installedKits
    IN  /\ \A kitName \in project.added : kitName \in InSet(installedKits)
        /\ \A i, j \in 1..Len(installedKits) :
              installedKits[i] = installedKits[j] => i = j
        /\ project.last.fn = "addKitToProject"
              /\ project.last.arg \in InSet(project.prev.installedKits)
              => project.context = project.prev

\* The folder holds a link file that parses and names a project.
ValidAiorg ==
    /\ project.aiorg.kind = "json"
    /\ project.aiorg.projectType = "string"

\* C25: needsProjectMigration(dir) returns true exactly when dir has no
\* readable .aiorg file and holds .claude/version.json: false for an empty
\* folder, false with a valid .aiorg file; after writeAiorgFile(dir, name)
\* has returned, readAiorgFile(dir) gives project = name and
\* needsProjectMigration(dir) is false.
C25_MigrationNeeded ==
    /\ project.last.fn = "needsProjectMigration" =>
          /\ project.last.ret = "true" <=> ~ValidAiorg /\ project.versionJson
          /\ project.aiorg.kind = "absent" /\ ~project.claudeDir
                => project.last.ret = "false"
          /\ ValidAiorg => project.last.ret = "false"
    /\ project.last.fn = "writeAiorgFile" /\ project.last.ret = "returned" =>
          /\ readAiorgFile(project) = project.last.arg
          /\ ~needsProjectMigration(project)

\* needsProjectMigration has answered false in a kit folder that
\* writeAiorgFile has linked to a project.
C25_Witness ==
    /\ project.last.fn = "needsProjectMigration"
    /\ project.last.ret = "false"
    /\ project.versionJson
    /\ project.aiorg = AiorgFile("json", "string", "beta", "1.0.0")

\* The source files some alwaysReplace, mergeIfChanged or addOnly pattern
\* expands to.
Expanded ==
    {f \in Shipped : \/ MatchesAny(f, manifest.alwaysReplace)
                      \/ MatchesAny(f, manifest.mergeIfChanged)
                      \/ MatchesAny(f, manifest.addOnly)}

\* C26: applyFileCategories changes the destination only at paths of source
\* files that an alwaysReplace, mergeIfChanged or addOnly pattern expands
\* to; it never deletes a destination file; and with the three lists empty
\* (fileCategories missing) the destination is as the call found it and
\* every result list is empty.
C26_Frame ==
    /\ [](manifest.alwaysReplace = <<>> /\ manifest.mergeIfChanged = <<>>
            /\ manifest.addOnly = <<>>
            => dest = before /\ result = EmptyResult)
    /\ [][\A f \in AllFiles :
             /\ dest'[f] # dest[f] => f \in Expanded
             /\ pathExists(dest, f) => pathExists(dest', f)]_vars

\* A call has returned that wrote an expanded file and left a destination
\* file outside the expansion, present before the call, as it was.
C26_Witness ==
    /\ stage = "done"
    /\ \E f \in Expanded : dest[f] # before[f]
    /\ \E g \in AllFiles \ Expanded : pathExists(before, g) /\ dest[g] = before[g]

\* No path occurs twice in the list.
NoRepeat(list) == \A i, j \in 1..Len(list) : list[i] = list[j] => i = j

\* C27: in every state of a run, no path occurs twice within replaced,
\* merged, added or skipped, the four lists are pairwise disjoint, and every
\* path in them is in processedFiles.
C27_ListsPartitionClaimed ==
    /\ NoRepeat(result.replaced) /\ NoRepeat(result.merged)
    /\ NoRepeat(result.added) /\ NoRepeat(result.skipped)
    /\ Replaced \cap Merged = {} /\ Replaced \cap Added = {}
    /\ Replaced \cap Skipped = {} /\ Merged \cap Added = {}
    /\ Merged \cap Skipped = {} /\ Added \cap Skipped = {}
    /\ Replaced \cup Merged \cup Added \cup Skipped \subseteq processedFiles

\* A call has returned with a replaced, a merged and a skipped path, one of
\* which more than one of its lists expanded to.
C27_Witness ==
    /\ stage = "done"
    /\ Replaced # {} /\ Merged # {} /\ Skipped # {}
    /\ \E f \in processedFiles : Len(dispatched[f]) = 1 /\
          Cardinality({l \in {"alwaysReplace", "mergeIfChanged", "addOnly"} :
                          MatchesAny(f, manifest[l])}) > 1

\* fetchLatestVersion has answered.
Fetched == \E i \in CallsOf("fetchLatestVersion") : calls[i].ret = "returned"

\* No backup, no download URL request, no download and no reconciliation.
NothingStarted ==
    /\ CallsOf("createGitBackup") = {}
    /\ CallsOf("getDownloadUrl") = {}
    /\ CallsOf("downloadFile") = {}
    /\ CallsOf("applyFileCategories") = {}
    /\ world.commits = 0
    /\ stage = "off"

\* C28: when the latest version is not greater than the installed one, or
\* the user declines the confirmation, upgrade returns without a git backup,
\* a download URL request, a download or a call of applyFileCategories.
C28_OnlyNewer ==
    /\ Fetched /\ ~semverGt(latest.version, kit.version)
          => step = "uptodate" /\ NothingStarted
    /\ step = "cancelled" => NothingStarted

\* upgrade --backup has returned in a git repository with changes because
\* the installed version is newer than the latest one.
C28_Witness ==
    /\ step = "uptodate"
    /\ semverGt(kit.version, latest.version)
    /\ isGitRepo(world) /\ world.dirty /\ options.backup

\* The download block of upgrade has been left, by return or by throw.
LeftDownloadBlock == tempDir = "aiorg-upgrade-1" /\ step \in {"complete", "thrown"}

C29_KeyUnlessFree ==
    \A i \in CallsOf("getDownloadUrl") :
       /\ calls[i].arg = IF latest.tier = "free" THEN "" ELSE licenseKey
       /\ latest.tier # "free" => calls[i].arg \in {"ak_env", "ak_saved", "ak_typed"}
       /\ i < Len(calls)
       /\ calls[i + 1].fn = "fetchWithTimeout"
       /\ calls[i + 1].arg = IF latest.tier = "free" THEN "" ELSE "Bearer"

\* init of a kit without tier has requested the download URL with the key
\* typed at the login prompt.
C29_Witness ==
    /\ step = "init.tempDir"
    /\ CallsOf("getDownloadUrl") # {}
    /\ latest.tier = "none"
    /\ licenseKey = "ak_typed"

====
